---- MODULE Spec2Model ----
(***************************************************************************)
(* State-machine model of the memeamp allocation engine: the TDH ledger    *)
(* (votingData), the REP state, the refresh guard and the three mutations  *)
(* (Boost, Vote, AssignRep) of src/src/wallet.ts, with the TDH slider of   *)
(* src/src/main.ts and the pattern normalizer of utils/tdh.                *)
(*                                                                         *)
(* JavaScript runs each handler to its next await without interruption,    *)
(* so every action below is the code between two awaits: a user event up   *)
(* to its first remote call, or the resumption of a suspended call with    *)
(* the outcome the remote gave.  Suspended calls are the records of procs. *)
(***************************************************************************)
EXTENDS Integers, Sequences, FiniteSets, Bags, TLC

\* ------------------------------------------------------------------ bounds
\* Events in one run: user events (clicks, key presses, drags, hovers,
\* connects) and passages of time.
MaxEvents == 4

\* Events from outside in a run of FairSpec.
MaxLiveEvents == 3

\* ------------------------------------------------- inputs and environment
\* Time that may pass between two events, in ms: the throttle window exactly,
\* and one ms more.
TickSteps == {30000, 30001}
\* Date.now() at page load.
StartMs == 15000

\* votingData = null
NoData == [null |-> TRUE]
\* The loading dots shown in #identityTdh in place of a number.
LOADING == -1

\* The playlist the server returns: id, and whether the author has an
\* identity (primary_address or id); the category is the title, one per id.
Submissions ==
  << [id |-> 1, artist |-> TRUE],
     [id |-> 2, artist |-> TRUE],
     [id |-> 3, artist |-> FALSE] >>
SubIds == {Submissions[i].id : i \in 1..Len(Submissions)}

\* Authoritative snapshots the server may return from getVotingData and
\* refreshUserData; userVotesMap holds an entry only for a submission the
\* user has voted on.
NoVotes == [s \in {} |-> 0]
Snapshots ==
  { [availableTDH |-> 100, userVotesMap |-> NoVotes],
    [availableTDH |-> 90,  userVotesMap |-> (1 :> 10)],
    [availableTDH |-> 0,   userVotesMap |-> (2 :> 100)],
    [availableTDH |-> 100, userVotesMap |-> (1 :> 10067)] }

\* Values getRepRating (signed) and getRepCredit may return; a rejected fetch
\* and a submission without artist give 0 and 0.
RepRatings == {-5, 10}
RepCredits == {20}

\* Totals already assigned that the credit test is tried on.
RepTotals == {-5, 0, 10}

\* Slider positions a drag may report.
Percentages == {0, 50, 100}

\* Arguments the pure functions are applied to: the values around 0, around
\* the pattern thresholds (1000 and 10000), around the pattern values
\* (100k + 67 and 1000k + 67) and their midpoints, and around the ceilings.
Ceilings ==
  (0..12) \cup {19, 20, 21, 99, 100, 101} \cup (998..1002) \cup (1066..1069)
    \cup (1165..1169) \cup {1500, 2000} \cup (9999..10001) \cup (10066..10069)
    \cup {10500} \cup (11066..11069) \cup {20000}
Requests ==
  {-1000, -1} \cup (0..12) \cup (98..101) \cup (995..1003) \cup (1064..1070)
    \cup (1116..1118) \cup (1164..1169) \cup (1499..1501) \cup (1998..2001)
    \cup (9998..10002) \cup {10050, 11050} \cup (10064..10069) \cup (10566..10568)
    \cup (11064..11069) \cup (19998..20001) \cup {20134, 40000}

\* How a remote call may reject: an auth-class message ("401"/"Unauthorized")
\* or any other message.
ErrorClasses == {"auth", "other"}

\* ------------------------------------------------------------ pure helpers
Max(a, b) == IF a >= b THEN a ELSE b
Min(a, b) == IF a <= b THEN a ELSE b
Abs(a) == IF a < 0 THEN -a ELSE a

\* Math.round((percentage / 100) * max) for percentage, max >= 0.
RoundPct(percentage, max) == (2 * percentage * max + 100) \div 200

NaN == -1

TDH_MIN_PATTERN == 10000
TDH_BLOCK == 1000
TDH_SUFFIX == 67

\* A normalizeTDHToPattern that takes the REP pool's threshold (1000) for
\* its minimum pattern value.
normalizeTDHWithRepThreshold(req, max) ==
  LET maxInt == Max(0, max)
      req0   == Max(0, req)
      reqInt == IF req0 > maxInt THEN maxInt ELSE req0
      base   == reqInt \div TDH_BLOCK
      down0  == IF base * TDH_BLOCK + TDH_SUFFIX > reqInt
                THEN (base - 1) * TDH_BLOCK + TDH_SUFFIX
                ELSE base * TDH_BLOCK + TDH_SUFFIX
      down   == IF down0 < 1000 \/ down0 > maxInt THEN NaN ELSE down0
      upBase == IF down # NaN /\ down < reqInt THEN base + 1 ELSE base
      up0    == upBase * TDH_BLOCK + TDH_SUFFIX
      up     == IF up0 < 1000 \/ up0 > maxInt THEN NaN ELSE up0
  IN  IF maxInt = 0 THEN 0
      ELSE IF reqInt < 1000 \/ maxInt < 1000 THEN reqInt
      ELSE IF down = NaN /\ up = NaN THEN reqInt
      ELSE IF down = NaN THEN up
      ELSE IF up = NaN THEN down
      ELSE IF Abs(up - reqInt) < Abs(reqInt - down) THEN up ELSE down

\* A normalizeTDHToPattern that does not cut the request down to max.
normalizeTDHUnclamped(req, max) ==
  LET maxInt == Max(0, max)
      reqInt == Max(0, req)
      base   == reqInt \div TDH_BLOCK
      down0  == IF base * TDH_BLOCK + TDH_SUFFIX > reqInt
                THEN (base - 1) * TDH_BLOCK + TDH_SUFFIX
                ELSE base * TDH_BLOCK + TDH_SUFFIX
      down   == IF down0 < TDH_MIN_PATTERN \/ down0 > maxInt THEN NaN ELSE down0
      upBase == IF down # NaN /\ down < reqInt THEN base + 1 ELSE base
      up0    == upBase * TDH_BLOCK + TDH_SUFFIX
      up     == IF up0 < TDH_MIN_PATTERN \/ up0 > maxInt THEN NaN ELSE up0
  IN  IF maxInt = 0 THEN 0
      ELSE IF reqInt < TDH_MIN_PATTERN \/ maxInt < TDH_MIN_PATTERN THEN reqInt
      ELSE IF down = NaN /\ up = NaN THEN reqInt
      ELSE IF down = NaN THEN up
      ELSE IF up = NaN THEN down
      ELSE IF Abs(up - reqInt) < Abs(reqInt - down) THEN up ELSE down

normalizeTDHToPattern(requested, max) ==
  LET maxInt == Max(0, max)
      req0   == Max(0, requested)
      reqInt == IF req0 > maxInt THEN maxInt ELSE req0
      base   == reqInt \div TDH_BLOCK
      down0  == IF base * TDH_BLOCK + TDH_SUFFIX > reqInt
                THEN (base - 1) * TDH_BLOCK + TDH_SUFFIX
                ELSE base * TDH_BLOCK + TDH_SUFFIX
      down   == IF down0 < TDH_MIN_PATTERN \/ down0 > maxInt THEN NaN ELSE down0
      upBase == IF down # NaN /\ down < reqInt THEN base + 1 ELSE base
      up0    == upBase * TDH_BLOCK + TDH_SUFFIX
      up     == IF up0 < TDH_MIN_PATTERN \/ up0 > maxInt THEN NaN ELSE up0
  IN  IF maxInt = 0 THEN 0
      ELSE IF reqInt < TDH_MIN_PATTERN \/ maxInt < TDH_MIN_PATTERN THEN reqInt
      ELSE IF down = NaN /\ up = NaN THEN reqInt
      ELSE IF down = NaN THEN up
      ELSE IF up = NaN THEN down
      ELSE IF Abs(up - reqInt) < Abs(reqInt - down) THEN up ELSE down

\* A calculateBoostAmount that does not raise a boost below 1 to 1.
calculateBoostWithoutMinimum(availableTDH) ==
  IF availableTDH < 1 THEN 0
  ELSE Min(availableTDH \div 10, availableTDH)

calculateBoostAmount(availableTDH) ==
  IF availableTDH < 1 THEN 0
  ELSE Min(Max(1, availableTDH \div 10), availableTDH)

\* ---------------------------------------------------------------- state
VARIABLES
  votingData,              \* the TDH ledger: NoData or [availableTDH, userVotesMap]
  winVotingData,           \* window.votingData, the ledger object main.ts reads
  currentSubmissions,      \* the playlist: <<>> before the first connect
  currentSubmissionIndex,  \* 0-based index of the focused submission
  currentAssignedTDH,      \* window.currentAssignedTDH, the TDH slider baseline
  pendingTDHAssignment,    \* window.pendingTDHAssignment, the staged TDH amount
  identityTdh,             \* the number shown in #identityTdh, or LOADING
  isRefreshingBoostData,
  lastBoostDataRefresh,
  now,                     \* Date.now()
  currentRepAssignment,
  currentRepTotalAssigned,
  pendingRepAssignment,
  availableRepCredit,
  currentRepCategory,      \* 0 for ''
  repSliderMax,
  repDataRequestId,
  addButtonDisabled,
  voteButtonDisabled,      \* voteButton and submitButton, always set together
  repButtonDisabled,
  errorMessage,            \* the error toast: "" when hidden
  procs,                   \* bag of suspended calls
  lastDone,                \* history: the mutation or REP fetch that finished last
  events,                  \* history: events so far
  refreshLog,              \* history: refreshUserData calls issued, and the
                           \* issue number of the response merged last
  requested,               \* pure functions: the first argument
  ceiling,                 \* pure functions: the ceiling (max, availableTDH, credit)
  assigned,                \* pure functions: the total already assigned
  result,                  \* pure functions: the value returned
  applied                  \* pure functions: the function applied, or "none"

tdhVars  == << votingData, winVotingData, currentAssignedTDH, pendingTDHAssignment, identityTdh >>
navVars  == << currentSubmissions, currentSubmissionIndex >>
guardVars == << isRefreshingBoostData, lastBoostDataRefresh >>
repVars  == << currentRepAssignment, currentRepTotalAssigned, pendingRepAssignment,
               availableRepCredit, currentRepCategory, repSliderMax, repDataRequestId >>
btnVars  == << addButtonDisabled, voteButtonDisabled, repButtonDisabled >>
histVars == << lastDone, events >>
fnVars   == << requested, ceiling, assigned, result, applied >>

progVars == << votingData, winVotingData, currentSubmissions, currentSubmissionIndex,
               currentAssignedTDH, pendingTDHAssignment, identityTdh,
               isRefreshingBoostData, lastBoostDataRefresh, now,
               currentRepAssignment, currentRepTotalAssigned, pendingRepAssignment,
               availableRepCredit, currentRepCategory, repSliderMax, repDataRequestId,
               addButtonDisabled, voteButtonDisabled, repButtonDisabled,
               errorMessage, procs, lastDone, events, refreshLog >>

vars == << votingData, winVotingData, currentSubmissions, currentSubmissionIndex,
           currentAssignedTDH, pendingTDHAssignment, identityTdh,
           isRefreshingBoostData, lastBoostDataRefresh, now,
           currentRepAssignment, currentRepTotalAssigned, pendingRepAssignment,
           availableRepCredit, currentRepCategory, repSliderMax, repDataRequestId,
           addButtonDisabled, voteButtonDisabled, repButtonDisabled,
           errorMessage, procs, lastDone, events, refreshLog,
           requested, ceiling, assigned, result, applied >>

\* A suspended call.  kind: Boost, Vote, AssignRep, Refresh, RepFetch.
\* pc: the await it is suspended at.  The other fields are the locals the
\* handler captured (0 where the kind has none), and the per-invocation
\* history counters writes, reauths and refreshes; seq is the issue number of
\* the refreshUserData call the handler waits for (0 when it waits for none).
NoProc ==
  [kind |-> "none", pc |-> "none", sub |-> 0, amount |-> 0, cur |-> 0, avail |-> 0,
   inc |-> 0, cat |-> 0, reqId |-> 0, awaited |-> FALSE,
   writes |-> 0, reauths |-> 0, refreshes |-> 0, authErr |-> FALSE, seq |-> 0]

NoneDone == [proc |-> NoProc, outcome |-> "none", snap |-> NoData]

Running == BagToSet(procs)
Start(p) == procs' = procs (+) SetToBag({p})
Finish(p) == procs' = procs (-) SetToBag({p})
Become(p, q) == procs' = (procs (-) SetToBag({p})) (+) SetToBag({q})

Focused == currentSubmissions[currentSubmissionIndex + 1]

\* The module state of wallet.ts after load.
ProgramInit ==
  /\ votingData = NoData
  /\ winVotingData = NoData
  /\ currentSubmissions = << >>
  /\ currentSubmissionIndex = 0
  /\ currentAssignedTDH = 0
  /\ pendingTDHAssignment = 0
  /\ identityTdh = 0
  /\ isRefreshingBoostData = FALSE
  /\ lastBoostDataRefresh = 0
  /\ now = StartMs
  /\ currentRepAssignment = 0
  /\ currentRepTotalAssigned = 0
  /\ pendingRepAssignment = 0
  /\ availableRepCredit = 0
  /\ currentRepCategory = 0
  /\ repSliderMax = 0
  /\ repDataRequestId = 0
  /\ addButtonDisabled = FALSE
  /\ voteButtonDisabled = FALSE
  /\ repButtonDisabled = FALSE
  /\ errorMessage = ""
  /\ procs = EmptyBag
  /\ lastDone = NoneDone
  /\ events = 0
  /\ refreshLog = [issued |-> 0, merged |-> 0]

\* The program: no pure function is under test.
Init ==
  /\ ProgramInit
  /\ requested = 0
  /\ ceiling = 0
  /\ assigned = 0
  /\ result = 0
  /\ applied = "none"

\* An event is counted against the bound of the run.
Counted ==
  /\ events < MaxEvents
  /\ events' = events + 1
  /\ UNCHANGED fnVars

\* An event that issues no refreshUserData call.
UserEvent ==
  /\ Counted
  /\ UNCHANGED refreshLog

\* A refreshUserData call is issued: it gets the next issue number.
IssueRefresh == refreshLog' = [refreshLog EXCEPT !.issued = @ + 1]

\* The response to the refreshUserData call with issue number seq is merged
\* (mergeRefreshedUserData does nothing without a ledger).
MergeRefresh(seq) ==
  refreshLog' = IF votingData # NoData THEN [refreshLog EXCEPT !.merged = seq]
                ELSE refreshLog

\* ------------------------------------------------------ ledger operations
\* votingData.userVotesMap?.[id] || 0
VotesOf(vd, id) ==
  IF vd = NoData THEN 0
  ELSE IF id \in DOMAIN vd.userVotesMap THEN vd.userVotesMap[id] ELSE 0

\* votingData?.user?.availableTDH ?? 0
AvailableOf(vd) == IF vd = NoData THEN 0 ELSE vd.availableTDH

\* A merge that takes the votes and keeps the user record: availableTDH stays
\* the local value.
mergeKeepingUser(vd, refreshed) ==
  IF vd = NoData THEN vd
  ELSE [availableTDH |-> vd.availableTDH, userVotesMap |-> refreshed.userVotesMap]

mergeRefreshedUserData(vd, refreshed) ==
  IF vd = NoData THEN vd
  ELSE [availableTDH |-> refreshed.availableTDH, userVotesMap |-> refreshed.userVotesMap]

\* if (votingData?.user) votingData.user.availableTDH = 0
ZeroAvailable(vd) ==
  IF vd = NoData THEN vd ELSE [vd EXCEPT !.availableTDH = 0]

\* The boost amount updateBoostTooltip computes for the tooltip text.
TooltipBoostAmount(vd, subs, idx) ==
  IF vd # NoData /\ subs # << >>
  THEN LET currentTDH == VotesOf(vd, subs[idx + 1].id)
           maxTDH == currentTDH + AvailableOf(vd)
           requestedTotal == currentTDH + calculateBoostAmount(AvailableOf(vd))
       IN  Max(0, normalizeTDHToPattern(requestedTotal, maxTDH) - currentTDH)
  ELSE calculateBoostAmount(AvailableOf(vd))

\* updateBoostTooltip: with a boost available it hides the error toast if the
\* toast shows the insufficient-credit message.  Returns the toast after it.
updateBoostTooltip(err, vd, subs, idx) ==
  IF err = "Need1TDH" /\ TooltipBoostAmount(vd, subs, idx) > 0 THEN "" ELSE err

\* A shouldRefresh that leaves out the exhausted-credit case.
shouldRefreshWithoutCreditCase(force) ==
  \/ force
  \/ lastBoostDataRefresh = 0
  \/ now - lastBoostDataRefresh > 30000

\* A shouldRefresh whose throttle window ends at 30000 ms instead of after it.
shouldRefreshAtThirtySeconds(force) ==
  \/ force
  \/ lastBoostDataRefresh = 0
  \/ AvailableOf(votingData) < 1
  \/ now - lastBoostDataRefresh >= 30000

\* shouldRefresh of refreshBoostDataIfNeeded
shouldRefresh(force) ==
  \/ force
  \/ lastBoostDataRefresh = 0
  \/ AvailableOf(votingData) < 1
  \/ now - lastBoostDataRefresh > 30000

\* The ledger object is shared with window.votingData: a write through
\* votingData is seen through window.votingData.
SyncWindow == winVotingData' = IF votingData' # NoData THEN votingData' ELSE winVotingData

\* ------------------------------------------------------------- REP helpers
clampSliderValue(value, max) ==
  IF value < 0 THEN 0 ELSE IF value > max THEN max ELSE value

REP_MIN_PATTERN == 1000
REP_BLOCK == 100
REP_SUFFIX == 67

\* A normalizeRepToPattern without the return of max for a value within
\* 2 units of max.
normalizeRepWithoutCeilingCase(value, max) ==
  LET clamped == clampSliderValue(value, max)
      base   == clamped \div REP_BLOCK
      down0  == IF base * REP_BLOCK + REP_SUFFIX > clamped
                THEN (base - 1) * REP_BLOCK + REP_SUFFIX
                ELSE base * REP_BLOCK + REP_SUFFIX
      down   == IF down0 < REP_MIN_PATTERN \/ down0 > max THEN NaN ELSE down0
      upBase == IF down # NaN /\ down < clamped THEN base + 1 ELSE base
      up0    == upBase * REP_BLOCK + REP_SUFFIX
      up     == IF up0 < REP_MIN_PATTERN \/ up0 > max THEN NaN ELSE up0
  IN  IF max <= 0 THEN 0
      ELSE IF clamped < REP_MIN_PATTERN \/ max < REP_MIN_PATTERN THEN clamped
      ELSE IF down = NaN /\ up = NaN THEN clamped
      ELSE IF down = NaN THEN up
      ELSE IF up = NaN THEN down
      ELSE IF Abs(up - clamped) < Abs(clamped - down) THEN up ELSE down

\* normalizeRepToPattern, with the global repSliderMax passed as max.
normalizeRepToPattern(value, max) ==
  LET clamped == clampSliderValue(value, max)
      base   == clamped \div REP_BLOCK
      down0  == IF base * REP_BLOCK + REP_SUFFIX > clamped
                THEN (base - 1) * REP_BLOCK + REP_SUFFIX
                ELSE base * REP_BLOCK + REP_SUFFIX
      down   == IF down0 < REP_MIN_PATTERN \/ down0 > max THEN NaN ELSE down0
      upBase == IF down # NaN /\ down < clamped THEN base + 1 ELSE base
      up0    == upBase * REP_BLOCK + REP_SUFFIX
      up     == IF up0 < REP_MIN_PATTERN \/ up0 > max THEN NaN ELSE up0
  IN  IF max <= 0 THEN 0
      ELSE IF clamped >= max - 2 THEN max
      ELSE IF clamped < REP_MIN_PATTERN \/ max < REP_MIN_PATTERN THEN clamped
      ELSE IF down = NaN /\ up = NaN THEN clamped
      ELSE IF down = NaN THEN up
      ELSE IF up = NaN THEN down
      ELSE IF Abs(up - clamped) < Abs(clamped - down) THEN up ELSE down

\* An updateRepSlider that takes the credit as given, without
\* normalizeNonNegative.
updateRepSliderUnclamped(assignedRep, repCredit) ==
  LET sliderAssigned == Max(0, assignedRep)
  IN  /\ repSliderMax' = sliderAssigned + repCredit
      /\ currentRepAssignment' = sliderAssigned
      /\ currentRepTotalAssigned' = assignedRep
      /\ pendingRepAssignment' = sliderAssigned
      /\ availableRepCredit' = repCredit

\* updateRepSlider: the five REP fields it writes (it also redraws
\* #identityTdh from window.currentAssignedTDH, which the callers model).
updateRepSlider(assignedRep, repCredit) ==
  LET credit == Max(0, repCredit)
      sliderAssigned == Max(0, assignedRep)
  IN  /\ repSliderMax' = sliderAssigned + credit
      /\ currentRepAssignment' = sliderAssigned
      /\ currentRepTotalAssigned' = assignedRep
      /\ pendingRepAssignment' = sliderAssigned
      /\ availableRepCredit' = credit

RepFetchProc(sub, reqId, from) ==
  [from EXCEPT !.kind = "RepFetch", !.pc = "fetch", !.sub = sub.id, !.reqId = reqId]

\* updateRepDataForSubmission up to its await, called with the bag of
\* suspended calls `bag` and the REP button's state `disabled`; `from` is the
\* AssignRep invocation awaiting it, or NoProc.
updateRepDataForSubmission(sub, bag, disabled, from) ==
  IF ~sub.artist
  THEN /\ updateRepSlider(0, 0)
       /\ UNCHANGED << repDataRequestId, currentRepCategory >>
       /\ repButtonDisabled' = disabled
       /\ procs' = bag
  ELSE /\ repDataRequestId' = repDataRequestId + 1
       /\ currentRepCategory' = sub.id
       /\ repButtonDisabled' = FALSE
       /\ UNCHANGED << repSliderMax, currentRepAssignment, currentRepTotalAssigned,
                       pendingRepAssignment, availableRepCredit >>
       /\ procs' = bag (+) SetToBag({RepFetchProc(sub, repDataRequestId + 1, from)})

\* loadSubmissionIntoVisualizer for the ledger vd: the TDH slider is redrawn
\* from the ledger and the REP data of the submission is fetched.
loadSubmissionIntoVisualizer(sub, vd, bag, disabled) ==
  /\ winVotingData' = vd
  /\ currentAssignedTDH' = VotesOf(vd, sub.id)
  /\ pendingTDHAssignment' = VotesOf(vd, sub.id)
  /\ identityTdh' = VotesOf(vd, sub.id)
  /\ updateRepDataForSubmission(sub, bag, disabled, NoProc)

\* ------------------------------------------------------ session lifecycle
ConnectProc == [NoProc EXCEPT !.kind = "Connect", !.pc = "getVotingData"]

\* connectWallet up to its first await.
ConnectWallet ==
  /\ UserEvent
  /\ errorMessage' = ""
  /\ Start(ConnectProc)
  /\ UNCHANGED << tdhVars, navVars, guardVars, now, repVars, btnVars, lastDone >>

\* authenticateWith6529 after getVotingData has resolved with snap.
ConnectResolved(p, snap) ==
  /\ p.kind = "Connect"
  /\ votingData' = snap
  /\ errorMessage' = updateBoostTooltip(errorMessage, snap, currentSubmissions, currentSubmissionIndex)
  /\ currentSubmissions' = Submissions
  /\ currentSubmissionIndex' = 0
  /\ loadSubmissionIntoVisualizer(Submissions[1], snap, procs (-) SetToBag({p}), repButtonDisabled)
  /\ UNCHANGED << guardVars, now, addButtonDisabled, voteButtonDisabled, histVars, fnVars, refreshLog >>

\* connectWallet when one of its awaits rejects.
ConnectRejected(p) ==
  /\ p.kind = "Connect"
  /\ Finish(p)
  /\ UNCHANGED << tdhVars, navVars, guardVars, now, repVars, btnVars, errorMessage, histVars, fnVars, refreshLog >>

DisconnectWallet ==
  /\ UserEvent
  /\ votingData' = NoData
  /\ errorMessage' = ""
  /\ identityTdh' = 0
  /\ UNCHANGED << winVotingData, currentAssignedTDH, pendingTDHAssignment, navVars,
                  guardVars, now, repVars, btnVars, procs, lastDone >>

\* Time passes.
Tick(ms) ==
  /\ UserEvent
  /\ now' = now + ms
  /\ UNCHANGED << tdhVars, navVars, guardVars, repVars, btnVars, errorMessage, procs,
                  lastDone >>

\* -------------------------------------------------------------- navigation
Navigate(idx) ==
  /\ currentSubmissions # << >>
  /\ UserEvent
  /\ currentSubmissionIndex' = idx
  /\ loadSubmissionIntoVisualizer(currentSubmissions[idx + 1], votingData, procs, FALSE)
  /\ UNCHANGED << votingData, currentSubmissions, guardVars, now, addButtonDisabled,
                  voteButtonDisabled, errorMessage, lastDone >>

showNextSubmission ==
  Navigate((currentSubmissionIndex + 1) % Max(1, Len(currentSubmissions)))

showPreviousSubmission ==
  Navigate((currentSubmissionIndex - 1 + Len(currentSubmissions)) % Max(1, Len(currentSubmissions)))

\* ------------------------------------------------------------------ staging
\* A drag of the TDH slider that writes the staged amount into the committed
\* baseline as well.
TDHSliderMoveCommitting(percentage) ==
  /\ UserEvent
  /\ IF winVotingData = NoData
     THEN UNCHANGED << pendingTDHAssignment, identityTdh, currentAssignedTDH >>
     ELSE LET maxTDH == currentAssignedTDH + winVotingData.availableTDH
              newAssignment == normalizeTDHToPattern(RoundPct(percentage, maxTDH), maxTDH)
          IN  /\ pendingTDHAssignment' = newAssignment
              /\ identityTdh' = newAssignment
              /\ currentAssignedTDH' = newAssignment
  /\ repButtonDisabled' = FALSE
  /\ pendingRepAssignment' = currentRepAssignment
  /\ UNCHANGED << votingData, winVotingData, navVars, guardVars, now,
                  currentRepAssignment, currentRepTotalAssigned, availableRepCredit,
                  currentRepCategory, repSliderMax, repDataRequestId,
                  addButtonDisabled, voteButtonDisabled, errorMessage, procs,
                  lastDone >>

\* A drag of the TDH slider: updateTDHFromSlider, then resetRepButtonState().
TDHSliderMove(percentage) ==
  /\ UserEvent
  /\ IF winVotingData = NoData
     THEN UNCHANGED << pendingTDHAssignment, identityTdh >>
     ELSE LET maxTDH == currentAssignedTDH + winVotingData.availableTDH
              newAssignment == normalizeTDHToPattern(RoundPct(percentage, maxTDH), maxTDH)
          IN  /\ pendingTDHAssignment' = newAssignment
              /\ identityTdh' = newAssignment
  /\ repButtonDisabled' = FALSE
  /\ pendingRepAssignment' = currentRepAssignment
  /\ UNCHANGED << votingData, winVotingData, currentAssignedTDH, navVars, guardVars, now,
                  currentRepAssignment, currentRepTotalAssigned, availableRepCredit,
                  currentRepCategory, repSliderMax, repDataRequestId,
                  addButtonDisabled, voteButtonDisabled, errorMessage, procs,
                  lastDone >>

\* A drag of the REP slider that puts the staged TDH amount back to the
\* committed one, as the drag of the TDH slider does for the staged REP.
handleRepSliderInputResettingTDH(percentage) ==
  /\ repSliderMax > 0
  /\ UserEvent
  /\ pendingRepAssignment' =
       normalizeRepToPattern(clampSliderValue(RoundPct(percentage, repSliderMax), repSliderMax),
                             repSliderMax)
  /\ identityTdh' = currentAssignedTDH
  /\ pendingTDHAssignment' = currentAssignedTDH
  /\ UNCHANGED << votingData, winVotingData, currentAssignedTDH,
                  navVars, guardVars, now,
                  currentRepAssignment, currentRepTotalAssigned, availableRepCredit,
                  currentRepCategory, repSliderMax, repDataRequestId,
                  btnVars, errorMessage, procs, lastDone >>

\* A drag of the REP slider.
handleRepSliderInput(percentage) ==
  /\ repSliderMax > 0
  /\ UserEvent
  /\ pendingRepAssignment' =
       normalizeRepToPattern(clampSliderValue(RoundPct(percentage, repSliderMax), repSliderMax),
                             repSliderMax)
  /\ identityTdh' = currentAssignedTDH
  /\ UNCHANGED << votingData, winVotingData, currentAssignedTDH, pendingTDHAssignment,
                  navVars, guardVars, now,
                  currentRepAssignment, currentRepTotalAssigned, availableRepCredit,
                  currentRepCategory, repSliderMax, repDataRequestId,
                  btnVars, errorMessage, procs, lastDone >>

\* ------------------------------------------------------------ refresh guard
RefreshProc == [NoProc EXCEPT !.kind = "Refresh", !.pc = "refresh", !.refreshes = 1]

\* refreshBoostDataIfNeeded up to its await (mouseenter or focus of the
\* Boost button; the callers pass no force argument).
refreshBoostDataIfNeeded ==
  /\ votingData # NoData
  /\ ~isRefreshingBoostData
  /\ shouldRefresh(FALSE)
  /\ Counted
  /\ IssueRefresh
  /\ isRefreshingBoostData' = TRUE
  /\ Start([RefreshProc EXCEPT !.seq = refreshLog.issued + 1])
  /\ UNCHANGED << tdhVars, navVars, lastBoostDataRefresh, now, repVars, btnVars,
                  errorMessage, lastDone >>

RefreshResolved(p, refreshed) ==
  /\ p.kind = "Refresh"
  /\ lastBoostDataRefresh' = now
  /\ votingData' = mergeRefreshedUserData(votingData, refreshed)
  /\ MergeRefresh(p.seq)
  /\ SyncWindow
  /\ errorMessage' = updateBoostTooltip(errorMessage, votingData', currentSubmissions,
                                        currentSubmissionIndex)
  /\ isRefreshingBoostData' = FALSE
  /\ Finish(p)
  /\ UNCHANGED << currentAssignedTDH, pendingTDHAssignment, identityTdh, navVars, now,
                  repVars, btnVars, histVars, fnVars >>

\* A failure path that stamps the time of the failure as a refresh.
RefreshRejectedStampingTime(p) ==
  /\ p.kind = "Refresh"
  /\ votingData' = ZeroAvailable(votingData)
  /\ SyncWindow
  /\ errorMessage' = updateBoostTooltip(errorMessage, votingData', currentSubmissions,
                                        currentSubmissionIndex)
  /\ isRefreshingBoostData' = FALSE
  /\ lastBoostDataRefresh' = now
  /\ Finish(p)
  /\ UNCHANGED << currentAssignedTDH, pendingTDHAssignment, identityTdh, navVars,
                  now, repVars, btnVars, histVars, fnVars, refreshLog >>

RefreshRejected(p) ==
  /\ p.kind = "Refresh"
  /\ votingData' = ZeroAvailable(votingData)
  /\ SyncWindow
  /\ errorMessage' = updateBoostTooltip(errorMessage, votingData', currentSubmissions,
                                        currentSubmissionIndex)
  /\ isRefreshingBoostData' = FALSE
  /\ Finish(p)
  /\ UNCHANGED << currentAssignedTDH, pendingTDHAssignment, identityTdh, navVars,
                  lastBoostDataRefresh, now, repVars, btnVars, histVars, fnVars, refreshLog >>

\* ------------------------------------------------------------------- Boost
\* The total boostCurrentSubmission sends for a submission with currentTDH
\* when availableTDH is left: the boost amount added and the sum normalized
\* under the ceiling currentTDH + availableTDH.
boostTotal(currentTDH, availableTDH) ==
  normalizeTDHToPattern(currentTDH + calculateBoostAmount(availableTDH),
                        currentTDH + availableTDH)

\* The two tests that end boostCurrentSubmission in "Need at least 1
\* available TDH to boost".
boostRejected(currentTDH, availableTDH) ==
  \/ calculateBoostAmount(availableTDH) < 1
  \/ boostTotal(currentTDH, availableTDH) - currentTDH < 1

Done(p, outcome, snap) == lastDone' = [proc |-> p, outcome |-> outcome, snap |-> snap]

\* A boostCurrentSubmission that returns on insufficient credit without
\* enabling the Boost button again.
boostLeavingButtonDisabled ==
  /\ UserEvent
  /\ IF votingData = NoData
     THEN /\ errorMessage' = "ConnectToBoost"
          /\ UNCHANGED << identityTdh, addButtonDisabled, procs >>
     ELSE LET submission == Focused
              currentTDH == VotesOf(votingData, submission.id)
              availableTDH == AvailableOf(votingData)
              boostAmount == calculateBoostAmount(availableTDH)
              maxTDH == currentTDH + availableTDH
              requestedTotal == currentTDH + boostAmount
              normalizedTotal == normalizeTDHToPattern(requestedTotal, maxTDH)
              normalizedBoostAmount == normalizedTotal - currentTDH
          IN  IF boostAmount < 1 \/ normalizedBoostAmount < 1
              THEN /\ identityTdh' = pendingTDHAssignment
                   /\ addButtonDisabled' = TRUE
                   /\ errorMessage' = updateBoostTooltip("Need1TDH", votingData,
                                         currentSubmissions, currentSubmissionIndex)
                   /\ UNCHANGED procs
              ELSE /\ addButtonDisabled' = TRUE
                   /\ identityTdh' = normalizedTotal
                   /\ Start([NoProc EXCEPT !.kind = "Boost", !.pc = "write",
                                           !.sub = submission.id, !.amount = normalizedTotal,
                                           !.cur = currentTDH, !.avail = availableTDH,
                                           !.writes = 1])
                   /\ UNCHANGED errorMessage
  /\ UNCHANGED << votingData, winVotingData, currentAssignedTDH, pendingTDHAssignment,
                  navVars, guardVars, now, repVars, voteButtonDisabled, repButtonDisabled,
                  lastDone >>

\* boostCurrentSubmission up to its first await.
boostCurrentSubmission ==
  /\ UserEvent
  /\ IF votingData = NoData
     THEN /\ errorMessage' = "ConnectToBoost"
          /\ UNCHANGED << identityTdh, addButtonDisabled, procs >>
     ELSE LET submission == Focused
              currentTDH == VotesOf(votingData, submission.id)
              availableTDH == AvailableOf(votingData)
              boostAmount == calculateBoostAmount(availableTDH)
              maxTDH == currentTDH + availableTDH
              requestedTotal == currentTDH + boostAmount
              normalizedTotal == boostTotal(currentTDH, availableTDH)
              normalizedBoostAmount == normalizedTotal - currentTDH
          IN  IF boostRejected(currentTDH, availableTDH)
              THEN /\ identityTdh' = pendingTDHAssignment
                   /\ addButtonDisabled' = FALSE
                   /\ errorMessage' = updateBoostTooltip("Need1TDH", votingData,
                                         currentSubmissions, currentSubmissionIndex)
                   /\ UNCHANGED procs
              ELSE /\ addButtonDisabled' = TRUE
                   /\ identityTdh' = normalizedTotal
                   /\ Start([NoProc EXCEPT !.kind = "Boost", !.pc = "write",
                                           !.sub = submission.id, !.amount = normalizedTotal,
                                           !.cur = currentTDH, !.avail = availableTDH,
                                           !.writes = 1])
                   /\ UNCHANGED errorMessage
  /\ UNCHANGED << votingData, winVotingData, currentAssignedTDH, pendingTDHAssignment,
                  navVars, guardVars, now, repVars, voteButtonDisabled, repButtonDisabled,
                  lastDone >>

\* A click on the Boost button: a disabled button fires no click.
BoostClick ==
  /\ ~addButtonDisabled
  /\ boostCurrentSubmission

\* Enter or Space on the document (keydown handler, not a repeat).
BoostKey == boostCurrentSubmission

\* sdk.submitVote of Boost resolved: the handler goes on to refreshUserData.
BoostWriteResolved(p) ==
  /\ p.kind = "Boost" /\ p.pc = "write"
  /\ Become(p, [p EXCEPT !.pc = "refresh", !.refreshes = @ + 1,
                          !.seq = refreshLog.issued + 1])
  /\ IssueRefresh
  /\ UNCHANGED << tdhVars, navVars, guardVars, now, repVars, btnVars, errorMessage, histVars, fnVars >>

\* The end of a failed Boost: the toast, the tooltip and the finally block.
BoostFailed(p, message) ==
  /\ errorMessage' = updateBoostTooltip(message, votingData', currentSubmissions,
                                        currentSubmissionIndex)
  /\ addButtonDisabled' = FALSE
  /\ Finish(p)
  /\ Done(p, "failed", NoData)

\* The outer catch of Boost: the first submitVote or the refresh after it
\* rejected with an error of class cls.
BoostCatch(p, cls) ==
  /\ p.kind = "Boost" /\ p.pc \in {"write", "refresh"} /\ p.reauths = 0
  /\ identityTdh' = p.cur
  /\ votingData' = ZeroAvailable(votingData)
  /\ SyncWindow
  /\ IF cls = "auth"
     THEN /\ Become(p, [p EXCEPT !.pc = "reauth", !.reauths = @ + 1, !.authErr = TRUE])
          /\ UNCHANGED << addButtonDisabled, errorMessage, lastDone >>
     ELSE BoostFailed(p, "BoostFailed")
  /\ UNCHANGED << currentAssignedTDH, pendingTDHAssignment, navVars, guardVars, now,
                  repVars, voteButtonDisabled, repButtonDisabled, events, fnVars, refreshLog >>

\* A retry that reads the focused submission again instead of the one the
\* handler captured.
BoostReauthResolvedRereadingFocus(p) ==
  /\ p.kind = "Boost" /\ p.pc = "reauth"
  /\ Become(p, [p EXCEPT !.pc = "write", !.writes = @ + 1, !.sub = Focused.id])
  /\ UNCHANGED << tdhVars, navVars, guardVars, now, repVars, btnVars, errorMessage, histVars, fnVars, refreshLog >>

\* sdk.authenticate of Boost resolved: the write is retried.
BoostReauthResolved(p) ==
  /\ p.kind = "Boost" /\ p.pc = "reauth"
  /\ Become(p, [p EXCEPT !.pc = "write", !.writes = @ + 1])
  /\ UNCHANGED << tdhVars, navVars, guardVars, now, repVars, btnVars, errorMessage, histVars, fnVars, refreshLog >>

\* An inner catch of Boost that writes once more instead of giving up.
BoostRetryCatchWritingAgain(p) ==
  /\ p.kind = "Boost" /\ p.reauths = 1
  /\ identityTdh' = p.cur
  /\ Become(p, [p EXCEPT !.pc = "write", !.writes = @ + 1])
  /\ UNCHANGED << votingData, winVotingData, currentAssignedTDH, pendingTDHAssignment,
                  navVars, guardVars, now, repVars, btnVars, errorMessage, histVars, fnVars, refreshLog >>

\* The inner catch of Boost: the re-authentication, the retried submitVote or
\* the refresh after it rejected.
BoostRetryCatch(p) ==
  /\ p.kind = "Boost" /\ p.reauths = 1
  /\ identityTdh' = p.cur
  /\ UNCHANGED << votingData, winVotingData >>
  /\ BoostFailed(p, "BoostSessionExpired")
  /\ UNCHANGED << currentAssignedTDH, pendingTDHAssignment, navVars, guardVars, now,
                  repVars, voteButtonDisabled, repButtonDisabled, events, fnVars, refreshLog >>

\* sdk.refreshUserData of Boost resolved with refreshed: the commit.
BoostRefreshResolved(p, refreshed) ==
  /\ p.kind = "Boost" /\ p.pc = "refresh"
  /\ lastBoostDataRefresh' = now
  /\ votingData' = mergeRefreshedUserData(votingData, refreshed)
  /\ MergeRefresh(p.seq)
  /\ SyncWindow
  /\ identityTdh' = VotesOf(refreshed, p.sub)
  /\ errorMessage' = ""
  /\ addButtonDisabled' = FALSE
  /\ Finish(p)
  /\ Done(p, "committed", refreshed)
  /\ UNCHANGED << currentAssignedTDH, pendingTDHAssignment, navVars, isRefreshingBoostData,
                  now, repVars, voteButtonDisabled, repButtonDisabled, events, fnVars >>

\* -------------------------------------------------------------------- Vote
\* submitVote up to its first await (a click on voteButton or submitButton).
submitVote ==
  /\ ~voteButtonDisabled
  /\ UserEvent
  /\ IF votingData = NoData
     THEN /\ errorMessage' = "ConnectToVote"
          /\ UNCHANGED << winVotingData, pendingTDHAssignment, identityTdh,
                          voteButtonDisabled, procs >>
     ELSE IF pendingTDHAssignment <= 0
     THEN \* resetTDHSliderState
          /\ winVotingData' = votingData
          /\ pendingTDHAssignment' = currentAssignedTDH
          /\ identityTdh' = currentAssignedTDH
          /\ errorMessage' = "VoteMustBePositive"
          /\ UNCHANGED << voteButtonDisabled, procs >>
     ELSE /\ voteButtonDisabled' = TRUE
          /\ identityTdh' = LOADING
          /\ Start([NoProc EXCEPT !.kind = "Vote", !.pc = "write", !.sub = Focused.id,
                                  !.amount = pendingTDHAssignment, !.writes = 1])
          /\ UNCHANGED << winVotingData, pendingTDHAssignment, errorMessage >>
  /\ UNCHANGED << votingData, currentAssignedTDH, navVars, guardVars, now, repVars,
                  addButtonDisabled, repButtonDisabled, lastDone >>

VoteWriteResolved(p) ==
  /\ p.kind = "Vote" /\ p.pc = "write"
  /\ Become(p, [p EXCEPT !.pc = "refresh", !.refreshes = @ + 1,
                          !.seq = refreshLog.issued + 1])
  /\ IssueRefresh
  /\ UNCHANGED << tdhVars, navVars, guardVars, now, repVars, btnVars, errorMessage, histVars, fnVars >>

\* The end of a failed Vote that leaves the vote button as it is.
VoteFailedLeavingDisabled(p, message) ==
  /\ errorMessage' = updateBoostTooltip(message, votingData, currentSubmissions,
                                        currentSubmissionIndex)
  /\ voteButtonDisabled' = voteButtonDisabled
  /\ Finish(p)
  /\ Done(p, "failed", NoData)

\* The end of a failed Vote: the toast and the finally block.
VoteFailed(p, message) ==
  /\ errorMessage' = updateBoostTooltip(message, votingData, currentSubmissions,
                                        currentSubmissionIndex)
  /\ voteButtonDisabled' = FALSE
  /\ Finish(p)
  /\ Done(p, "failed", NoData)

\* The outer catch of Vote.
VoteCatch(p, cls) ==
  /\ p.kind = "Vote" /\ p.pc \in {"write", "refresh"} /\ p.reauths = 0
  /\ IF cls = "auth"
     THEN /\ Become(p, [p EXCEPT !.pc = "reauth", !.reauths = @ + 1, !.authErr = TRUE])
          /\ UNCHANGED << voteButtonDisabled, errorMessage, lastDone >>
     ELSE VoteFailed(p, "VoteFailed")
  /\ UNCHANGED << tdhVars, navVars, guardVars, now, repVars, addButtonDisabled,
                  repButtonDisabled, events, fnVars, refreshLog >>

VoteReauthResolved(p) ==
  /\ p.kind = "Vote" /\ p.pc = "reauth"
  /\ Become(p, [p EXCEPT !.pc = "write", !.writes = @ + 1])
  /\ UNCHANGED << tdhVars, navVars, guardVars, now, repVars, btnVars, errorMessage, histVars, fnVars, refreshLog >>

\* The inner catch of Vote.
VoteRetryCatch(p) ==
  /\ p.kind = "Vote" /\ p.reauths = 1
  /\ VoteFailed(p, "VoteSessionExpired")
  /\ UNCHANGED << tdhVars, navVars, guardVars, now, repVars, addButtonDisabled,
                  repButtonDisabled, events, fnVars, refreshLog >>

\* sdk.refreshUserData of Vote resolved with refreshed: the commit, which
\* redraws the TDH slider from the refreshed entry of the voted submission.
VoteRefreshResolved(p, refreshed) ==
  LET updatedTDH == IF p.sub \in DOMAIN refreshed.userVotesMap
                    THEN refreshed.userVotesMap[p.sub] ELSE p.amount
  IN  /\ p.kind = "Vote" /\ p.pc = "refresh"
      /\ lastBoostDataRefresh' = now
      /\ votingData' = mergeRefreshedUserData(votingData, refreshed)
      /\ MergeRefresh(p.seq)
      /\ winVotingData' = votingData'
      /\ currentAssignedTDH' = updatedTDH
      /\ pendingTDHAssignment' = updatedTDH
      /\ identityTdh' = updatedTDH
      /\ errorMessage' = ""
      /\ voteButtonDisabled' = FALSE
      /\ Finish(p)
      /\ Done(p, "committed", refreshed)
      /\ UNCHANGED << navVars, isRefreshingBoostData, now, repVars, addButtonDisabled,
                      repButtonDisabled, events, fnVars >>

\* --------------------------------------------------------------- AssignRep
\* The part of the target that has to come out of the available credit.
increaseNeeded(desiredRep, currentTotal) ==
  Max(0, desiredRep - Max(0, currentTotal))

lacksRepCreditUnchecked(desiredRep, currentTotal, credit) == FALSE

\* The credit test of assignRepToCurrentSubmission.
lacksRepCredit(desiredRep, currentTotal, credit) ==
  increaseNeeded(desiredRep, currentTotal) > credit

\* assignRepToCurrentSubmission up to its await (a click on the REP button).
assignRepToCurrentSubmission ==
  /\ ~repButtonDisabled
  /\ UserEvent
  /\ LET desiredRep == pendingRepAssignment
         currentSliderAssigned == Max(0, currentRepTotalAssigned)
         increase == increaseNeeded(desiredRep, currentRepTotalAssigned)
     IN  IF votingData = NoData
         THEN /\ errorMessage' = "ConnectToRep"
              /\ UNCHANGED << repButtonDisabled, identityTdh, procs >>
         ELSE IF lacksRepCredit(desiredRep, currentRepTotalAssigned, availableRepCredit)
         THEN /\ errorMessage' = "NotEnoughRep"
              /\ UNCHANGED << repButtonDisabled, identityTdh, procs >>
         ELSE IF ~Focused.artist
         THEN /\ errorMessage' = "NoArtist"
              /\ UNCHANGED << repButtonDisabled, identityTdh, procs >>
         ELSE /\ repButtonDisabled' = TRUE
              /\ Start([NoProc EXCEPT !.kind = "AssignRep", !.pc = "write",
                          !.sub = Focused.id, !.amount = desiredRep,
                          !.cur = currentSliderAssigned, !.inc = increase,
                          !.cat = IF currentRepCategory # 0 THEN currentRepCategory
                                  ELSE Focused.id,
                          !.writes = 1])
              /\ UNCHANGED << errorMessage, identityTdh >>
  /\ UNCHANGED << votingData, winVotingData, currentAssignedTDH, pendingTDHAssignment,
                  navVars, guardVars, now, repVars, addButtonDisabled, voteButtonDisabled,
                  lastDone >>

SubmissionOf(id) == CHOOSE s \in {Submissions[i] : i \in 1..Len(Submissions)} : s.id = id

\* A success path that gives no credit back when the target is below the
\* committed total.
AssignRepResolvedWithoutRefund(p) ==
  LET decrease == Max(0, p.cur - p.amount)
      recomputed == availableRepCredit - p.inc
  IN  /\ p.kind = "AssignRep"
      /\ updateRepSlider(p.amount, recomputed)
      /\ identityTdh' = currentAssignedTDH
      /\ repDataRequestId' = repDataRequestId + 1
      /\ currentRepCategory' = p.sub
      /\ repButtonDisabled' = FALSE
      /\ procs' = (procs (-) SetToBag({p}))
                    (+) SetToBag({RepFetchProc(SubmissionOf(p.sub), repDataRequestId + 1, NoProc)})
      /\ Done(p, "committed", [recomputed |-> recomputed])
      /\ UNCHANGED << votingData, winVotingData, currentAssignedTDH, pendingTDHAssignment,
                      navVars, guardVars, now, addButtonDisabled, voteButtonDisabled,
                      errorMessage, events, fnVars, refreshLog >>

\* sdk.assignRep resolved: availableRepCredit is recomputed from the captured
\* amounts, updateRepSlider redraws the REP state from it, and the REP data
\* of the submission is fetched again.  The recomputed credit, as assigned
\* before updateRepSlider normalises it, is kept in the history.
AssignRepResolved(p) ==
  LET decrease == Max(0, p.cur - p.amount)
      recomputed == availableRepCredit - p.inc + decrease
  IN  /\ p.kind = "AssignRep"
      /\ updateRepSlider(p.amount, recomputed)
      /\ identityTdh' = currentAssignedTDH
      /\ repDataRequestId' = repDataRequestId + 1
      /\ currentRepCategory' = p.sub
      /\ repButtonDisabled' = FALSE
      /\ procs' = (procs (-) SetToBag({p}))
                    (+) SetToBag({RepFetchProc(SubmissionOf(p.sub), repDataRequestId + 1, NoProc)})
      /\ Done(p, "committed", [recomputed |-> recomputed])
      /\ UNCHANGED << votingData, winVotingData, currentAssignedTDH, pendingTDHAssignment,
                      navVars, guardVars, now, addButtonDisabled, voteButtonDisabled,
                      errorMessage, events, fnVars, refreshLog >>

\* sdk.assignRep rejected: the toast, then the REP data is fetched again and
\* awaited before the finally block.
AssignRepRejected(p, cls) ==
  /\ p.kind = "AssignRep"
  /\ errorMessage' = "RepFailed"
  /\ updateRepDataForSubmission(SubmissionOf(p.sub), procs (-) SetToBag({p}), repButtonDisabled,
                                [p EXCEPT !.awaited = TRUE, !.authErr = (cls = "auth")])
  /\ UNCHANGED << tdhVars, navVars, guardVars, now, addButtonDisabled, voteButtonDisabled,
                  histVars, fnVars, refreshLog >>

\* --------------------------------------------------------------- REP fetch
\* The end of a REP fetch: if a failed AssignRep awaited it, the finally
\* block of that AssignRep.
AfterRepFetch(p) ==
  IF p.awaited
  THEN /\ repButtonDisabled' = FALSE
       /\ Done([p EXCEPT !.kind = "AssignRep", !.pc = "write", !.reqId = 0,
                         !.awaited = FALSE], "failed", NoData)
  ELSE /\ UNCHANGED repButtonDisabled
       /\ Done(p, IF p.reqId # repDataRequestId THEN "discarded" ELSE "applied", NoData)

\* A resolved REP fetch applied without comparing its request id.
RepFetchResolvedUnchecked(p, assignedRep, repCredit) ==
  /\ p.kind = "RepFetch"
  /\ updateRepSlider(assignedRep, repCredit)
  /\ identityTdh' = currentAssignedTDH
  /\ AfterRepFetch(p)
  /\ Finish(p)
  /\ UNCHANGED << votingData, winVotingData, currentAssignedTDH, pendingTDHAssignment,
                  navVars, guardVars, now, currentRepCategory, repDataRequestId,
                  addButtonDisabled, voteButtonDisabled, errorMessage, events, fnVars, refreshLog >>

\* getRepRating and getRepCredit resolved.
RepFetchResolved(p, assignedRep, repCredit) ==
  /\ p.kind = "RepFetch"
  /\ IF p.reqId # repDataRequestId
     THEN UNCHANGED << currentRepAssignment, currentRepTotalAssigned, pendingRepAssignment,
                       availableRepCredit, repSliderMax, identityTdh >>
     ELSE /\ updateRepSlider(assignedRep, repCredit)
          /\ identityTdh' = currentAssignedTDH
  /\ AfterRepFetch(p)
  /\ Finish(p)
  /\ UNCHANGED << votingData, winVotingData, currentAssignedTDH, pendingTDHAssignment,
                  navVars, guardVars, now, currentRepCategory, repDataRequestId,
                  addButtonDisabled, voteButtonDisabled, errorMessage, events, fnVars, refreshLog >>

\* getRepRating or getRepCredit rejected.
RepFetchRejected(p) ==
  /\ p.kind = "RepFetch"
  /\ IF p.reqId # repDataRequestId
     THEN UNCHANGED << currentRepAssignment, currentRepTotalAssigned, pendingRepAssignment,
                       availableRepCredit, repSliderMax, identityTdh >>
     ELSE /\ updateRepSlider(0, 0)
          /\ identityTdh' = currentAssignedTDH
  /\ AfterRepFetch(p)
  /\ Finish(p)
  /\ UNCHANGED << votingData, winVotingData, currentAssignedTDH, pendingTDHAssignment,
                  navVars, guardVars, now, currentRepCategory, repDataRequestId,
                  addButtonDisabled, voteButtonDisabled, errorMessage, events, fnVars, refreshLog >>

\* ------------------------------------------------------------ specification
Next ==
  \/ ConnectWallet
  \/ \E p \in Running, snap \in Snapshots : ConnectResolved(p, snap)
  \/ \E p \in Running : ConnectRejected(p)
  \/ DisconnectWallet
  \/ \E ms \in TickSteps : Tick(ms)
  \/ showNextSubmission
  \/ showPreviousSubmission
  \/ \E pct \in Percentages : TDHSliderMove(pct)
  \/ \E pct \in Percentages : handleRepSliderInput(pct)
  \/ refreshBoostDataIfNeeded
  \/ \E p \in Running, snap \in Snapshots : RefreshResolved(p, snap)
  \/ \E p \in Running : RefreshRejected(p)
  \/ BoostClick
  \/ BoostKey
  \/ \E p \in Running : BoostWriteResolved(p)
  \/ \E p \in Running, cls \in ErrorClasses : BoostCatch(p, cls)
  \/ \E p \in Running : BoostReauthResolved(p)
  \/ \E p \in Running : BoostRetryCatch(p)
  \/ \E p \in Running, snap \in Snapshots : BoostRefreshResolved(p, snap)
  \/ submitVote
  \/ \E p \in Running : VoteWriteResolved(p)
  \/ \E p \in Running, cls \in ErrorClasses : VoteCatch(p, cls)
  \/ \E p \in Running : VoteReauthResolved(p)
  \/ \E p \in Running : VoteRetryCatch(p)
  \/ \E p \in Running, snap \in Snapshots : VoteRefreshResolved(p, snap)
  \/ assignRepToCurrentSubmission
  \/ \E p \in Running : AssignRepResolved(p)
  \/ \E p \in Running, cls \in ErrorClasses : AssignRepRejected(p, cls)
  \/ \E p \in Running, r \in RepRatings, c \in RepCredits : RepFetchResolved(p, r, c)
  \/ \E p \in Running : RepFetchRejected(p)

Spec == Init /\ [][Next]_vars

\* ---------------------------------------------------------------- fairness
\* A pending remote call settles: the handler suspended at it is resumed with
\* the resolution or the rejection.
Settles ==
  \E p \in Running :
    \/ \E snap \in Snapshots : ConnectResolved(p, snap)
    \/ ConnectRejected(p)
    \/ \E snap \in Snapshots : RefreshResolved(p, snap)
    \/ RefreshRejected(p)
    \/ BoostWriteResolved(p)
    \/ \E cls \in ErrorClasses : BoostCatch(p, cls)
    \/ BoostReauthResolved(p)
    \/ BoostRetryCatch(p)
    \/ \E snap \in Snapshots : BoostRefreshResolved(p, snap)
    \/ VoteWriteResolved(p)
    \/ \E cls \in ErrorClasses : VoteCatch(p, cls)
    \/ VoteReauthResolved(p)
    \/ VoteRetryCatch(p)
    \/ \E snap \in Snapshots : VoteRefreshResolved(p, snap)
    \/ AssignRepResolved(p)
    \/ \E cls \in ErrorClasses : AssignRepRejected(p, cls)
    \/ \E r \in RepRatings, c \in RepCredits : RepFetchResolved(p, r, c)
    \/ RepFetchRejected(p)

\* The steps of Next, with the events from outside (the user acts or time
\* passes) bounded by MaxLiveEvents.
Bounded(A) == A /\ events' <= MaxLiveEvents

LiveNext ==
  \/ Bounded(ConnectWallet)
  \/ Bounded(DisconnectWallet)
  \/ \E ms \in TickSteps : Bounded(Tick(ms))
  \/ Bounded(showNextSubmission)
  \/ Bounded(showPreviousSubmission)
  \/ \E pct \in Percentages : Bounded(TDHSliderMove(pct))
  \/ \E pct \in Percentages : Bounded(handleRepSliderInput(pct))
  \/ Bounded(refreshBoostDataIfNeeded)
  \/ Bounded(BoostClick)
  \/ Bounded(BoostKey)
  \/ Bounded(submitVote)
  \/ Bounded(assignRepToCurrentSubmission)
  \/ \E p \in Running, snap \in Snapshots : ConnectResolved(p, snap)
  \/ \E p \in Running : ConnectRejected(p)
  \/ \E p \in Running, snap \in Snapshots : RefreshResolved(p, snap)
  \/ \E p \in Running : RefreshRejected(p)
  \/ \E p \in Running : BoostWriteResolved(p)
  \/ \E p \in Running, cls \in ErrorClasses : BoostCatch(p, cls)
  \/ \E p \in Running : BoostReauthResolved(p)
  \/ \E p \in Running : BoostRetryCatch(p)
  \/ \E p \in Running, snap \in Snapshots : BoostRefreshResolved(p, snap)
  \/ \E p \in Running : VoteWriteResolved(p)
  \/ \E p \in Running, cls \in ErrorClasses : VoteCatch(p, cls)
  \/ \E p \in Running : VoteReauthResolved(p)
  \/ \E p \in Running : VoteRetryCatch(p)
  \/ \E p \in Running, snap \in Snapshots : VoteRefreshResolved(p, snap)
  \/ \E p \in Running : AssignRepResolved(p)
  \/ \E p \in Running, cls \in ErrorClasses : AssignRepRejected(p, cls)
  \/ \E p \in Running, r \in RepRatings, c \in RepCredits : RepFetchResolved(p, r, c)
  \/ \E p \in Running : RepFetchRejected(p)

\* The program under the assumption that every remote call eventually
\* resolves or rejects; the user's events stay optional.
FairSpec == Init /\ [][LiveNext]_vars /\ WF_vars(Settles)

\* ------------------------------------------------------- the pure functions
\* The normalizers and calculateBoostAmount applied once to arguments drawn
\* from Requests and Ceilings; the program itself does not run.
FnInit ==
  /\ ProgramInit
  /\ requested \in Requests
  /\ ceiling \in Ceilings
  /\ assigned \in RepTotals
  /\ result = 0
  /\ applied = "none"

\* normalizeTDHToPattern(requested, ceiling)
ApplyNormalizeTDH ==
  /\ applied = "none"
  /\ applied' = "normalizeTDHToPattern"
  /\ result' = normalizeTDHToPattern(requested, ceiling)
  /\ UNCHANGED << progVars, requested, ceiling, assigned >>

\* normalizeRepToPattern(requested) with repSliderMax = ceiling
ApplyNormalizeRep ==
  /\ applied = "none"
  /\ applied' = "normalizeRepToPattern"
  /\ result' = normalizeRepToPattern(requested, ceiling)
  /\ UNCHANGED << progVars, requested, ceiling, assigned >>

\* calculateBoostAmount(ceiling): the argument is the available TDH.
ApplyCalculateBoost ==
  /\ applied = "none"
  /\ applied' = "calculateBoostAmount"
  /\ result' = calculateBoostAmount(ceiling)
  /\ UNCHANGED << progVars, requested, ceiling, assigned >>

\* The credit test of assignRepToCurrentSubmission for the target requested,
\* the total assigned and the credit ceiling: the handler either shows the
\* insufficient-credit error or goes on to send the call.
ApplyAssignRepCheck ==
  /\ applied = "none"
  /\ applied' = IF lacksRepCredit(requested, assigned, ceiling)
                THEN "NotEnoughRep" ELSE "assignRep"
  /\ result' = increaseNeeded(requested, assigned)
  /\ UNCHANGED << progVars, requested, ceiling, assigned >>

\* The total of boostCurrentSubmission for the current total requested and
\* the available TDH ceiling: the handler either rejects or sends the total.
ApplyBoostTotal ==
  /\ applied = "none"
  /\ applied' = IF boostRejected(requested, ceiling) THEN "Need1TDH" ELSE "boost"
  /\ result' = boostTotal(requested, ceiling)
  /\ UNCHANGED << progVars, requested, ceiling, assigned >>

FnNext ==
  \/ ApplyBoostTotal
  \/ ApplyAssignRepCheck
  \/ ApplyNormalizeTDH
  \/ ApplyNormalizeRep
  \/ ApplyCalculateBoost

FnSpec == FnInit /\ [][FnNext]_vars

\* ------------------------------------------------------------------ claims
\* The suspended call p is resumed by this step.
Resumed(p) == CopiesIn(p, procs') < CopiesIn(p, procs)

\* The suspended calls that satisfy Test, as a bag.
InFlight(Test(_)) == [p \in {q \in Running : Test(q)} |-> CopiesIn(p, procs)]

\* The suspended call p ends in this step: it is resumed and nothing is
\* suspended in its place.
Finished(p) ==
  /\ Resumed(p)
  /\ \A q \in BagToSet(procs') : CopiesIn(q, procs') <= CopiesIn(q, procs)

\* The Boost p ends in this step in failure.
BoostFails(p) ==
  /\ p.kind = "Boost" /\ Finished(p)
  /\ lastDone'.outcome = "failed" /\ lastDone'.proc = p

\* C1: a Boost that ends in failure leaves the TDH ledger at the values it
\* had when Boost was invoked: availableTDH and the userVotesMap entry of the
\* boosted submission equal the captured availableTDH and currentTDH.
C1_BoostFailureRestoresLedger ==
  [][\A p \in Running :
       (BoostFails(p) /\ votingData' # NoData)
         => /\ AvailableOf(votingData') = p.avail
            /\ VotesOf(votingData', p.sub) = p.cur]_vars

\* C2: for every mutation kind, a write that failed with an auth-class error
\* is followed by exactly one re-authentication before failure is reported.
C2_AuthErrorReauthenticatesOnce ==
  /\ \A p \in Running : p.authErr => p.reauths = 1
  /\ lastDone.proc.authErr => lastDone.proc.reauths = 1

\* C3: one invocation of Boost, Vote or AssignRep issues at most two remote
\* writes: the first attempt and at most one retry after re-authentication.
C3_AtMostTwoWrites ==
  /\ \A p \in Running : p.writes <= 1 + p.reauths /\ p.reauths <= 1
  /\ lastDone.proc.writes <= 2

C3_Witness ==
  /\ lastDone.proc.kind \in {"Boost", "Vote"}
  /\ lastDone.outcome = "failed"
  /\ lastDone.proc.writes = 2

\* C4: a Boost or Vote response for a submission that is no longer focused
\* changes neither the displayed TDH total, nor the slider baseline, nor the
\* staged amount.
C4_LateTDHResponseKeepsFocus ==
  [][\A p \in Running :
       (p.kind \in {"Boost", "Vote"} /\ Resumed(p) /\ p.sub # Focused.id)
         => UNCHANGED << identityTdh, currentAssignedTDH, pendingTDHAssignment >>]_vars

\* C5: a REP fetch result or AssignRep result for a submission that is no
\* longer focused changes no REP state.
C5_LateREPResponseKeepsFocus ==
  [][\A p \in Running :
       (p.kind \in {"RepFetch", "AssignRep"} /\ Resumed(p) /\ p.sub # Focused.id)
         => UNCHANGED << currentRepTotalAssigned, availableRepCredit,
                         pendingRepAssignment, currentRepCategory >>]_vars

\* C6: the response (success or failure) of a REP fetch issued before the
\* latest one changes no REP state, and the request id only ever increases.
C6_StaleRepFetchDiscarded ==
  [][/\ \A p \in Running :
          (p.kind = "RepFetch" /\ Resumed(p) /\ p.reqId < repDataRequestId)
            => UNCHANGED << currentRepAssignment, currentRepTotalAssigned,
                            pendingRepAssignment, availableRepCredit, repSliderMax,
                            currentRepCategory >>
     /\ repDataRequestId' >= repDataRequestId]_vars

C6_Witness ==
  /\ lastDone.proc.kind = "RepFetch"
  /\ lastDone.outcome = "discarded"
  /\ lastDone.proc.reqId < repDataRequestId

IsRefreshCall(p) == p.pc = "refresh"

\* C7: at most one sdk.refreshUserData call is in flight at any time.
C7_OneRefreshInFlight ==
  BagCardinality(InFlight(IsRefreshCall)) <= 1

IsBoost(p) == p.kind = "Boost"

\* C8: at most one Boost mutation is in flight at any time.
C8_OneBoostInFlight ==
  BagCardinality(InFlight(IsBoost)) <= 1

\* The step commits the Boost or Vote p with the refreshed snapshot.
Commits(p) ==
  /\ p.kind \in {"Boost", "Vote"} /\ p.pc = "refresh" /\ Finished(p)
  /\ lastDone'.outcome = "committed" /\ lastDone'.proc = p

\* C9: when a Boost or Vote commits, the TDH ledger holds the refreshed
\* values: the userVotesMap and the availableTDH of the server's snapshot.
C9_CommitTakesServerValues ==
  [][\A p \in Running :
       (Commits(p) /\ votingData' # NoData)
         => /\ votingData'.userVotesMap = lastDone'.snap.userVotesMap
            /\ VotesOf(votingData', p.sub) = VotesOf(lastDone'.snap, p.sub)
            /\ AvailableOf(votingData') = lastDone'.snap.availableTDH]_vars

\* A committed Boost or Vote whose server total differs from the total sent,
\* with the ledger holding the server's values.
C9_Witness ==
  /\ lastDone.proc.kind \in {"Boost", "Vote"}
  /\ lastDone.outcome = "committed"
  /\ votingData # NoData
  /\ VotesOf(lastDone.snap, lastDone.proc.sub) # lastDone.proc.amount
  /\ VotesOf(votingData, lastDone.proc.sub) = VotesOf(lastDone.snap, lastDone.proc.sub)
  /\ AvailableOf(votingData) = lastDone.snap.availableTDH
  /\ AvailableOf(votingData) # lastDone.proc.avail - (lastDone.proc.amount - lastDone.proc.cur)

\* C10: in every state the staged amount of each pool lies within
\* [0, totalAssigned + availableCredit] of the focused submission.
C10_StagedWithinCeiling ==
  /\ (votingData # NoData /\ currentSubmissions # << >>)
       => /\ pendingTDHAssignment >= 0
          /\ pendingTDHAssignment <= VotesOf(votingData, Focused.id) + AvailableOf(votingData)
  /\ pendingRepAssignment >= 0
  /\ pendingRepAssignment <= Max(0, currentRepTotalAssigned) + availableRepCredit

\* C11: between events the available credit of neither pool is negative:
\* availableTDH >= 0 and availableRepCredit >= 0.
C11_AvailableCreditNonNegative ==
  /\ AvailableOf(votingData) >= 0
  /\ availableRepCredit >= 0

\* An AssignRep whose response arrived after a REP fetch had changed
\* availableRepCredit: the credit it recomputed was negative.
C11_Witness ==
  /\ lastDone.proc.kind = "AssignRep"
  /\ lastDone.outcome = "committed"
  /\ lastDone.snap.recomputed < 0
  /\ availableRepCredit = 0

\* The step accepts a refreshed snapshot into the TDH ledger for the call p:
\* the throttled refresh, or the refresh that commits a Boost or a Vote.
AcceptsTDHSnapshot(p) ==
  \E snap \in Snapshots :
    \/ RefreshResolved(p, snap)
    \/ BoostRefreshResolved(p, snap)
    \/ VoteRefreshResolved(p, snap)

\* The step applies the result of the current REP fetch p.
AcceptsRepFetch(p) ==
  /\ p.reqId = repDataRequestId
  /\ \E r \in RepRatings, c \in RepCredits : RepFetchResolved(p, r, c)

\* C12: when an authoritative response is accepted into a pool, the staged
\* amount of that pool becomes the authoritative total of the focused
\* submission (for REP, the slider total max(0, total)).
C12_AcceptResetsStagedAmount ==
  [][\A p \in Running :
       /\ (AcceptsTDHSnapshot(p) /\ votingData' # NoData)
            => pendingTDHAssignment' = VotesOf(votingData', Focused.id)
       /\ AcceptsRepFetch(p)
            => pendingRepAssignment' = Max(0, currentRepTotalAssigned')]_vars

\* C13: for a ceiling of at least 10000, normalizeTDHToPattern returns the
\* ceiling for ceiling - 1 and for every request within 2 units of the
\* ceiling.
C13_TDHCeilingProximity ==
  (/\ applied = "normalizeTDHToPattern"
   /\ ceiling >= TDH_MIN_PATTERN
   /\ requested >= ceiling - 2)
    => result = ceiling

\* C14: for a slider maximum max > 0, normalizeRepToPattern returns max for
\* every value whose clamped form is at least max - 2.
C14_RepCeilingProximity ==
  (/\ applied = "normalizeRepToPattern"
   /\ ceiling > 0
   /\ clampSliderValue(requested, ceiling) >= ceiling - 2)
    => result = ceiling

\* Above the pattern threshold, one unit below a maximum that is no pattern
\* value: the maximum is returned.
C14_Witness ==
  /\ applied = "normalizeRepToPattern"
  /\ ceiling >= REP_MIN_PATTERN
  /\ ceiling % REP_BLOCK # REP_SUFFIX
  /\ requested = ceiling - 1
  /\ result = ceiling

\* clamp(x, 0, max)
Clamp(x, max) == Max(0, Min(x, max))

\* C15 as stated: below the minimum-pattern threshold (10000 for TDH, 1000
\* for REP) each normalizer returns exactly clamp(x, 0, ceiling).
C15_BelowThresholdIdentity ==
  /\ (applied = "normalizeTDHToPattern" /\ requested < TDH_MIN_PATTERN)
       => result = Clamp(requested, ceiling)
  /\ (applied = "normalizeRepToPattern" /\ requested < REP_MIN_PATTERN)
       => result = Clamp(requested, ceiling)

\* C15 amended: below the threshold normalizeTDHToPattern returns exactly
\* clamp(x, 0, ceiling); normalizeRepToPattern returns clamp(x, 0, ceiling)
\* unless that is within 2 units of a ceiling > 0, where it returns the
\* ceiling.
C15_BelowThresholdIdentityAmended ==
  /\ (applied = "normalizeTDHToPattern" /\ requested < TDH_MIN_PATTERN)
       => result = Clamp(requested, ceiling)
  /\ (applied = "normalizeRepToPattern" /\ requested < REP_MIN_PATTERN)
       => result = IF ceiling > 0 /\ Clamp(requested, ceiling) >= ceiling - 2
                   THEN ceiling
                   ELSE Clamp(requested, ceiling)

\* A request below the threshold under a ceiling above it, which patterns
\* could apply to: it is returned unchanged.
C15_Witness ==
  /\ applied = "normalizeTDHToPattern"
  /\ requested > 1067 /\ requested < TDH_MIN_PATTERN
  /\ ceiling >= TDH_MIN_PATTERN
  /\ result = requested

\* C16: for both normalizers, a ceiling >= 0 and a request in
\* [-1000, 2 * ceiling], the result is within [0, ceiling]; with ceiling 0
\* the result is 0.
C16_NormalizerRange ==
  (/\ applied \in {"normalizeTDHToPattern", "normalizeRepToPattern"}
   /\ ceiling >= 0
   /\ requested >= -1000 /\ requested <= 2 * ceiling)
    => /\ result >= 0
       /\ result <= ceiling
       /\ ceiling = 0 => result = 0

\* A request above a ceiling that patterns apply to, brought within it.
C16_Witness ==
  /\ applied = "normalizeTDHToPattern"
  /\ ceiling >= TDH_MIN_PATTERN
  /\ requested > ceiling /\ requested <= 2 * ceiling
  /\ result >= TDH_MIN_PATTERN /\ result <= ceiling

\* The values 1000 * k + 67 within [10000, max].
TDHPatternValues(max) ==
  {v \in {1000 * k + 67 : k \in 0..(max \div 1000)} : v >= 10000 /\ v <= max}

\* C17: with the clamped request r and the ceiling both at least 10000,
\* normalizeTDHToPattern returns the value 1000 * k + 67 of [10000, ceiling]
\* nearest to r, the lower one of two equally near, and r itself if there is
\* none; normalize(10067, 20000) = 10067 and normalize(10050, 20000) = 10067.
C17_TDHSnapsToNearestPattern ==
  LET r == Clamp(requested, ceiling)
      candidates == TDHPatternValues(ceiling)
  IN  (applied = "normalizeTDHToPattern" /\ r >= 10000 /\ ceiling >= 10000)
        => /\ candidates = {} => result = r
           /\ candidates # {} =>
                /\ result \in candidates
                /\ \A v \in candidates :
                     /\ Abs(result - r) <= Abs(v - r)
                     /\ Abs(result - r) = Abs(v - r) => result <= v
           /\ (requested = 10067 /\ ceiling = 20000) => result = 10067
           /\ (requested = 10050 /\ ceiling = 20000) => result = 10067

\* C18: for an integer a >= 0, calculateBoostAmount(a) is 0 when a < 1 and
\* min(a, max(1, floor(a / 10))) otherwise, which is within [1, a]; it is 0
\* for 0, 1 for 5 and 10 for 100.
C18_BoostAmount ==
  (applied = "calculateBoostAmount" /\ ceiling >= 0)
    => /\ ceiling < 1 => result = 0
       /\ ceiling >= 1 =>
            /\ result = Min(ceiling, Max(1, ceiling \div 10))
            /\ result >= 1 /\ result <= ceiling
       /\ ceiling = 0 => result = 0
       /\ ceiling = 5 => result = 1
       /\ ceiling = 100 => result = 10

\* A tenth of the available TDH is below 1: the boost is raised to 1.
C18_Witness ==
  /\ applied = "calculateBoostAmount"
  /\ ceiling = 5
  /\ result = 1

\* C19: a Vote invoked with a staged amount <= 0 shows the invalid-amount
\* error, starts no remote call and changes neither the total, nor the
\* available credit, nor the staged amount of either pool.
C19_RejectedVoteTouchesNothing ==
  [][(submitVote /\ votingData # NoData /\ pendingTDHAssignment <= 0)
       => /\ errorMessage' = "VoteMustBePositive"
          /\ procs' = procs
          /\ UNCHANGED << votingData, currentAssignedTDH, pendingTDHAssignment,
                          currentRepAssignment, currentRepTotalAssigned,
                          pendingRepAssignment, availableRepCredit >>]_vars

\* The boost that boostCurrentSubmission would compute is below 1: either
\* the boost amount itself, or the normalized total minus the current total.
BoostLacksCredit ==
  LET currentTDH == VotesOf(votingData, Focused.id)
      availableTDH == AvailableOf(votingData)
      requestedTotal == currentTDH + calculateBoostAmount(availableTDH)
  IN  \/ availableTDH < 1
      \/ normalizeTDHToPattern(requestedTotal, currentTDH + availableTDH) - currentTDH < 1

\* C20: a Boost invoked with available TDH < 1, or whose normalized total
\* minus the current total is < 1, shows the insufficient-credit error,
\* starts no remote call, leaves availableTDH and userVotesMap unchanged and
\* leaves the Boost button enabled.
C20_BoostWithoutCreditIsRejected ==
  [][(boostCurrentSubmission /\ votingData # NoData /\ BoostLacksCredit)
       => /\ errorMessage' = "Need1TDH"
          /\ procs' = procs
          /\ votingData' = votingData
          /\ ~addButtonDisabled']_vars

\* A Boost rejected although TDH is available: since the connect, which
\* hides the toast, no refresh has changed the ledger, the boost of 10 on a
\* total of 10067 normalizes to a delta of 0, and the toast shows the error.
C20_Witness ==
  /\ errorMessage = "Need1TDH"
  /\ votingData # NoData
  /\ lastBoostDataRefresh = 0
  /\ AvailableOf(votingData) >= 1
  /\ VotesOf(votingData, Focused.id) = 10067
  /\ BoostLacksCredit
  /\ ~addButtonDisabled
  /\ procs = EmptyBag

RefreshRequestable ==
  /\ votingData # NoData
  /\ ~isRefreshingBoostData
  /\ events < MaxEvents

C22_RefreshProceedsIff ==
  /\ shouldRefresh(TRUE)
  /\ RefreshRequestable
       => ((ENABLED refreshBoostDataIfNeeded)
             <=> \/ lastBoostDataRefresh = 0
                 \/ AvailableOf(votingData) < 1
                 \/ now - lastBoostDataRefresh > 30000)

\* A request exactly 30000 ms after the last refresh, with credit left, is
\* dropped.
C22_Witness ==
  /\ RefreshRequestable
  /\ lastBoostDataRefresh # 0
  /\ now - lastBoostDataRefresh = 30000
  /\ AvailableOf(votingData) >= 1
  /\ ~ENABLED refreshBoostDataIfNeeded

\* lastBoostDataRefresh is written only when a refresh has succeeded, with
\* the time of the success: a nonzero value within 30000 ms of now says that
\* the last successful refresh is at most 30000 ms old.
RecentlyRefreshed ==
  /\ lastBoostDataRefresh # 0
  /\ now - lastBoostDataRefresh <= 30000

\* C23 as stated: within 30000 ms of a successful refresh a refresh request
\* issues no network call.
C23_ThrottledAfterSuccess ==
  RecentlyRefreshed => ~ENABLED refreshBoostDataIfNeeded

\* C23 amended: within 30000 ms of a successful refresh a refresh request
\* issues no network call as long as the available TDH is at least 1.
C23_ThrottledAfterSuccessWithCredit ==
  (RecentlyRefreshed /\ AvailableOf(votingData) >= 1)
    => ~ENABLED refreshBoostDataIfNeeded

\* A request 30000 ms after the guard's own refresh succeeded (no mutation
\* has finished, so the timestamp is the guard's), with credit left.
C23_Witness ==
  /\ RefreshRequestable
  /\ lastDone = NoneDone
  /\ RecentlyRefreshed
  /\ now - lastBoostDataRefresh = 30000
  /\ AvailableOf(votingData) = 100

\* C24: when the guard's refresh fails, the failure path starts no call of
\* its own, sets the available TDH of the session to 0, clears
\* isRefreshingBoostData and leaves lastBoostDataRefresh as it was, so that
\* the guard lets the next request of the session through.
C24_FailedRefreshNotThrottled ==
  [][\A p \in Running :
       RefreshRejected(p)
         => /\ \A q \in DOMAIN procs' : CopiesIn(q, procs') <= CopiesIn(q, procs)
            /\ votingData # NoData => AvailableOf(votingData') = 0
            /\ ~isRefreshingBoostData'
            /\ lastBoostDataRefresh' = lastBoostDataRefresh
            /\ votingData # NoData
                 => (votingData' # NoData /\ shouldRefresh(FALSE)')]_vars

\* The second refresh of a session has failed 30001 ms after the first one
\* succeeded.
C24_Witness ==
  /\ lastDone = NoneDone
  /\ votingData = [availableTDH |-> 0, userVotesMap |-> (1 :> 10)]
  /\ ~isRefreshingBoostData
  /\ lastBoostDataRefresh # 0
  /\ now - lastBoostDataRefresh = 30001
  /\ \A p \in Running : p.kind # "Refresh"

\* C25: a disconnect resets the throttle state (lastBoostDataRefresh to 0 and
\* isRefreshingBoostData to false), and apart from that the two fields are
\* written by the refresh guard only.
ByRefreshGuard ==
  \/ refreshBoostDataIfNeeded
  \/ \E p \in Running :
       \/ RefreshRejected(p)
       \/ \E refreshed \in Snapshots : RefreshResolved(p, refreshed)

C25_DisconnectResetsThrottle ==
  [][/\ DisconnectWallet
          => (lastBoostDataRefresh' = 0 /\ ~isRefreshingBoostData')
     /\ guardVars' # guardVars => (DisconnectWallet \/ ByRefreshGuard)]_vars

\* C26: a disconnect discards the credit state of both pools: votingData is
\* gone and the REP state (totals, credit, staged amount, slider ceiling) is
\* cleared.
C26_DisconnectDiscardsCredit ==
  [][DisconnectWallet
       => /\ votingData' = NoData
          /\ currentRepAssignment' = 0
          /\ currentRepTotalAssigned' = 0
          /\ pendingRepAssignment' = 0
          /\ availableRepCredit' = 0
          /\ repSliderMax' = 0]_vars

\* A step of the TDH pool: Boost or Vote (the handler or the resumption of
\* one of its awaits) or a move of the TDH slider.
TDHPoolStep ==
  \/ BoostClick
  \/ BoostKey
  \/ submitVote
  \/ \E p \in Running : p.kind \in {"Boost", "Vote"} /\ Resumed(p)
  \/ \E pct \in Percentages : TDHSliderMove(pct)

\* A step of the REP pool: AssignRep (the handler or its resumption) or a
\* move of the REP slider.
REPPoolStep ==
  \/ assignRepToCurrentSubmission
  \/ \E p \in Running : p.kind = "AssignRep" /\ Resumed(p)
  \/ \E pct \in Percentages : handleRepSliderInput(pct)

\* C27 as stated: the pools are independent: a step of the TDH pool leaves
\* currentRepTotalAssigned, availableRepCredit and pendingRepAssignment as they
\* were, and a step of the REP pool leaves the TDH ledger (userVotesMap,
\* availableTDH) and pendingTDHAssignment as they were.
C27_PoolsIndependent ==
  [][/\ TDHPoolStep
          => UNCHANGED << currentRepTotalAssigned, availableRepCredit,
                          pendingRepAssignment >>
     /\ REPPoolStep
          => UNCHANGED << votingData, pendingTDHAssignment >>]_vars

\* C27 amended: Boost and Vote leave currentRepTotalAssigned,
\* availableRepCredit and pendingRepAssignment as they were; a move of the TDH
\* slider leaves the two REP totals as they were and puts the staged REP amount
\* back to currentRepAssignment; AssignRep and a move of the REP slider leave
\* the TDH ledger and pendingTDHAssignment as they were.
C27_PoolsIndependentButStagedRep ==
  [][/\ TDHPoolStep
          => /\ UNCHANGED << currentRepTotalAssigned, availableRepCredit >>
             /\ IF \E pct \in Percentages : TDHSliderMove(pct)
                THEN pendingRepAssignment' = currentRepAssignment
                ELSE pendingRepAssignment' = pendingRepAssignment
     /\ REPPoolStep
          => UNCHANGED << votingData, pendingTDHAssignment >>]_vars

\* A Boost has committed while a REP amount was staged, and the staged
\* amount is still there.
C27_Witness ==
  /\ lastDone.proc.kind = "Boost"
  /\ lastDone.outcome = "committed"
  /\ pendingRepAssignment # currentRepAssignment
  /\ availableRepCredit = 20

\* The committed totals and the available credit of both pools.
committedVars == << votingData, winVotingData, currentAssignedTDH, currentRepAssignment,
                    currentRepTotalAssigned, availableRepCredit, repSliderMax >>

\* The staged amount is within [0, totalAssigned + availableCredit], taken
\* from the values the handler reads when the slider moves.
StagedTDHClamped ==
  IF winVotingData = NoData
  THEN pendingTDHAssignment' = pendingTDHAssignment
  ELSE pendingTDHAssignment' \in 0 .. (currentAssignedTDH + winVotingData.availableTDH)

StagedRepClamped ==
  pendingRepAssignment' \in 0 .. (Max(0, currentRepTotalAssigned) + availableRepCredit)

\* C28 as stated: staging never mutates committed totals: a move of the TDH
\* slider changes pendingTDHAssignment only and a move of the REP slider
\* changes pendingRepAssignment only, the totals and the available credit are
\* unchanged, and the staged value is within [0, totalAssigned +
\* availableCredit] as read at that moment.
C28_StagingChangesOnlyStaged ==
  [][/\ (\E pct \in Percentages : TDHSliderMove(pct))
          => /\ UNCHANGED committedVars
             /\ UNCHANGED pendingRepAssignment
             /\ StagedTDHClamped
     /\ (\E pct \in Percentages : handleRepSliderInput(pct))
          => /\ UNCHANGED committedVars
             /\ UNCHANGED pendingTDHAssignment
             /\ StagedRepClamped]_vars

\* C28 amended: as stated, except that a move of the TDH slider also puts
\* the staged REP amount back to currentRepAssignment.
C28_StagingKeepsCommittedTotals ==
  [][/\ (\E pct \in Percentages : TDHSliderMove(pct))
          => /\ UNCHANGED committedVars
             /\ pendingRepAssignment' = currentRepAssignment
             /\ StagedTDHClamped
     /\ (\E pct \in Percentages : handleRepSliderInput(pct))
          => /\ UNCHANGED committedVars
             /\ UNCHANGED pendingTDHAssignment
             /\ StagedRepClamped]_vars

\* Half of the TDH ceiling of 100 is staged on a submission that has no
\* committed TDH.
C28_Witness ==
  /\ votingData # NoData
  /\ AvailableOf(votingData) = 100
  /\ currentAssignedTDH = 0
  /\ pendingTDHAssignment = 50

\* C29: assuming that every remote call eventually resolves or rejects, a
\* control that an invocation of Boost, Vote or AssignRep has disabled is
\* eventually enabled again, whatever path the invocation takes.
C29_ControlsReenabled ==
  /\ addButtonDisabled ~> ~addButtonDisabled
  /\ voteButtonDisabled ~> ~voteButtonDisabled
  /\ repButtonDisabled ~> ~repButtonDisabled

\* A Vote has ended in failure after its re-authentication, and the vote
\* button is enabled.
C29_Witness ==
  /\ lastDone.proc.kind = "Vote"
  /\ lastDone.outcome = "failed"
  /\ lastDone.proc.reauths = 1
  /\ ~voteButtonDisabled

IsAssignRep(p) == p.kind = "AssignRep"

\* C30: while the remote call of an AssignRep is pending the REP button is
\* disabled, whatever else happens in between (navigation, a drag of the TDH
\* slider, a REP fetch starting), and so at most one AssignRep is in flight.
C30_RepButtonDisabledWhileAssigning ==
  /\ (\E p \in Running : IsAssignRep(p)) => repButtonDisabled
  /\ BagCardinality(InFlight(IsAssignRep)) <= 1

\* The suspended call q is started or continued by this step.
Issued(q) == CopiesIn(q, procs') > CopiesIn(q, procs)

\* C31: every await of a Boost or Vote is for the submission id and the
\* total amount the handler captured at its start, so the write retried after
\* the re-authentication is the first write again, wherever the focus and the
\* sliders are by then.
C31_RetryIsSameWrite ==
  [][\A p \in Running :
       (p.kind \in {"Boost", "Vote"} /\ Resumed(p))
         => \A q \in BagToSet(procs') :
              Issued(q) => (q.kind = p.kind /\ q.sub = p.sub /\ q.amount = p.amount)]_vars

\* The retried write of a Boost is pending and the user has navigated away
\* from the submission it is for.
C31_Witness ==
  \E p \in Running :
    /\ p.kind = "Boost" /\ p.pc = "write" /\ p.writes = 2
    /\ p.sub # Focused.id

\* C32: an AssignRep that resolves while the REP state is as it was at its
\* invocation (committed total T >= 0, credit A covering the increase), with
\* target D, sets the REP total to D and the credit to
\* A - max(0, D - T) + max(0, T - D), so that total + credit is unchanged.
C32_AssignRepArithmetic ==
  [][\A p \in Running :
       (/\ AssignRepResolved(p)
        /\ currentRepTotalAssigned = p.cur
        /\ Max(0, p.amount - p.cur) <= availableRepCredit)
         => /\ currentRepTotalAssigned' = p.amount
            /\ availableRepCredit' = availableRepCredit - Max(0, p.amount - p.cur)
                                                        + Max(0, p.cur - p.amount)
            /\ currentRepTotalAssigned' + availableRepCredit'
                 = currentRepTotalAssigned + availableRepCredit]_vars

\* An AssignRep from total 10 down to 0 has committed: the credit went from
\* 20 to 30.
C32_Witness ==
  /\ lastDone.proc.kind = "AssignRep"
  /\ lastDone.outcome = "committed"
  /\ lastDone.proc.cur = 10
  /\ lastDone.proc.amount = 0
  /\ currentRepTotalAssigned = 0
  /\ availableRepCredit = 30

\* C33: one invocation of Boost or Vote issues at most one refreshUserData,
\* also when it goes through the re-authentication and the retry.
C33_OneRefreshPerInvocation ==
  \A p \in Running : p.kind \in {"Boost", "Vote"} => p.refreshes <= 1

C35_SucceededWriteDoesNotFail ==
  [][\A p \in Running :
       (p.kind \in {"Boost", "Vote"} /\ p.pc = "refresh" /\ Resumed(p))
         => /\ \A q \in BagToSet(procs') : ~Issued(q)
            /\ lastDone'.outcome # "failed"
            /\ AvailableOf(votingData) > 0 => AvailableOf(votingData') > 0]_vars

\* C36: the TDH ledger never goes back to an older server snapshot: the
\* response to a refreshUserData call issued earlier is never merged after
\* the response to one issued later.
C36_LedgerNeverRegresses ==
  [][refreshLog'.merged >= refreshLog.merged]_vars

\* C37: a failed refresh or fetch leaves the committed totals of both pools
\* as they were; only the available credit may be zeroed.  Stated for a
\* rejected refreshUserData (userVotesMap stays) and for the rejected REP
\* fetch that follows a committed AssignRep on the same submission
\* (currentRepTotalAssigned stays the total just committed).
C37_FailedFetchKeepsTotals ==
  [][\A p \in Running :
       /\ RefreshRejected(p)
            => (votingData # NoData
                  => votingData'.userVotesMap = votingData.userVotesMap)
       /\ (/\ RepFetchRejected(p)
           /\ lastDone.proc.kind = "AssignRep"
           /\ lastDone.outcome = "committed"
           /\ lastDone.proc.sub = p.sub
           /\ currentRepTotalAssigned = lastDone.proc.amount)
            => currentRepTotalAssigned' = currentRepTotalAssigned]_vars

\* C38: both normalizers are idempotent: normalizing the value a normalizer
\* returned, with the same ceiling, returns that value again.
C38_NormalizersIdempotent ==
  /\ applied = "normalizeTDHToPattern"
       => normalizeTDHToPattern(result, ceiling) = result
  /\ applied = "normalizeRepToPattern"
       => normalizeRepToPattern(result, ceiling) = result

====
